---- MODULE Spec2Model ----
(***************************************************************************)
(* WiFiEnterpriseClass (src/WiFiEnterprise.cpp, src/WiFiEnterprise.h): a   *)
(* wrapper that programs the ESP32 WPA2-Enterprise driver, initiates the   *)
(* association and polls the driver's status register with a timeout.      *)
(*                                                                         *)
(* The wrapper is modelled as a deterministic machine: every statement     *)
(* that talks to the driver, reads the clock or sleeps is one step, a pure *)
(* operator from the machine state (and what the driver or the clock       *)
(* answers) to the next machine state.  The driver's status register and   *)
(* its assigned address belong to the environment and change at any time.  *)
(***************************************************************************)
EXTENDS Integers, Sequences, FiniteSets, TLC

VARIABLES
    w,          \* the WiFiEnterprise object, its call in flight, the driver registers it wrote, the test log
                \* (setBefore: the argument of the setDebug() call directly before this call, if any)
    twin,       \* a second WiFiEnterprise machine fed the same driver answers (pair runs only)
    status,     \* the driver's live status register, WiFi.status()
    ip,         \* the driver's assigned address, WiFi.localIP()
    now,        \* the millisecond clock behind millis(), in ticks of MsPerTick ms
    reply,      \* what the driver answered to the last accessor's query
    seen,       \* the driver's status register at the moment of the last accessor call
    hist,       \* how the begin()/end() call before the current one ended (history runs only)
    sk,         \* the example sketch driving the object: its globals and position (sketch runs only)
    connSlept   \* ms begin() has slept in its poll loop while the driver kept reporting WL_CONNECTED

vars == <<w, twin, status, ip, now, reply, seen, hist, sk, connSlept>>

(***************************************************************************)
(* Program constants                                                       *)
(***************************************************************************)
timeout == 20000
SettleDelay == 1000
PollDelay == 500

\* millis() is a 32-bit unsigned long.  The model clock counts ticks of 4 ms
\* (every delay of the code is a multiple of it), so that the clock wraps
\* after 2^30 ticks = 2^32 ms, exactly where millis() wraps.
MsPerTick == 2^2
ClockTicks == 2^30

WL_IDLE_STATUS == "WL_IDLE_STATUS"
WL_NO_SSID_AVAIL == "WL_NO_SSID_AVAIL"
WL_CONNECTED == "WL_CONNECTED"
WL_CONNECT_FAILED == "WL_CONNECT_FAILED"
WL_CONNECTION_LOST == "WL_CONNECTION_LOST"
WL_DISCONNECTED == "WL_DISCONNECTED"

wl_status_t ==
    {WL_IDLE_STATUS, WL_NO_SSID_AVAIL, WL_CONNECTED, WL_CONNECT_FAILED,
     WL_CONNECTION_LOST, WL_DISCONNECTED}

(***************************************************************************)
(* Inputs the model draws from                                             *)
(***************************************************************************)
Ssids == {"Corp"}
\* EAP accounts, <<username, password>>
Accounts == {<<"alice", "secret">>, <<"bob", "hunter2">>}
ZeroIP == "0.0.0.0"
IPAddress == {ZeroIP, "10.0.0.7"}
\* clock values at which a call may start: far from the wrap, and 5000 ms before it
StartTimes == {0, ClockTicks - (5000 \div MsPerTick)}

None == "none"

\* consecutive end() calls the test log tells apart
MaxEnds == 2

(***************************************************************************)
(* The clock                                                               *)
(***************************************************************************)
\* delay(ms): the clock after sleeping ms
delay(t, ms) == (t + (ms \div MsPerTick)) % ClockTicks

\* millis() - startTime in unsigned 32-bit arithmetic, in ms
Elapsed(t, start) == ((t - start) % ClockTicks) * MsPerTick

(***************************************************************************)
(* The driver registers the wrapper programs                               *)
(***************************************************************************)
DrvInit ==
    [mode |-> None, ent |-> FALSE, identity |-> None, username |-> None,
     password |-> None, assoc |-> None]

\* effect of one driver command on the registers
DrvApply(d, cmd, arg) ==
    CASE cmd = "disconnect"   -> [d EXCEPT !.assoc = None]
      [] cmd = "mode"         -> [d EXCEPT !.mode = arg]
      [] cmd = "set_identity" -> [d EXCEPT !.identity = arg]
      [] cmd = "set_username" -> [d EXCEPT !.username = arg]
      [] cmd = "set_password" -> [d EXCEPT !.password = arg]
      [] cmd = "enable"       -> [d EXCEPT !.ent = TRUE]
      [] cmd = "disable"      -> [d EXCEPT !.ent = FALSE]
      [] cmd = "begin"        -> [d EXCEPT !.assoc = arg]

\* the machine after issuing a driver command: the registers change, the log grows
Issue(m, cmd, arg) ==
    [m EXCEPT !.drv = DrvApply(@, cmd, arg), !.cmds = Append(@, cmd)]

(***************************************************************************)
(* debugPrint: a line on the diagnostic sink when _debugEnabled            *)
(***************************************************************************)
debugPrint(m, n) ==
    IF m.debugEnabled THEN [m EXCEPT !.lines = @ + n] ELSE m

(***************************************************************************)
(* The machine                                                             *)
(***************************************************************************)
MachineInit ==
    [debugEnabled |-> FALSE, connected |-> FALSE,
     op |-> None, pc |-> "idle",
     ssid |-> None, username |-> None, password |-> None,
     enableDebug |-> FALSE, enable |-> FALSE,
     startTime |-> 0, ret |-> None,
     drv |-> DrvInit,
     cmds |-> <<>>, reads |-> 0, sleeps |-> 0, lines |-> 0, dots |-> 0,
     firstConn |-> 0, loopExit |-> None, finalRead |-> None,
     callStart |-> 0, callEnd |-> 0, setBefore |-> {}, endsInRow |-> 0]

Min(a, b) == IF a < b THEN a ELSE b

\* a call enters: the frame and the per-call test log start afresh
Enter(m, name, t) ==
    [m EXCEPT !.op = name, !.ret = None,
              !.ssid = None, !.username = None, !.password = None,
              !.enableDebug = FALSE, !.enable = FALSE,
              !.startTime = 0,
              !.cmds = <<>>, !.reads = 0, !.sleeps = 0, !.lines = 0, !.dots = 0,
              !.firstConn = 0, !.loopExit = None, !.finalRead = None,
              !.callStart = t, !.callEnd = t,
              !.setBefore = IF m.op = "setDebug" THEN {m.enable} ELSE {},
              !.endsInRow = IF name = "end" THEN Min(m.endsInRow + 1, MaxEnds) ELSE 0]

\* a call returns r at time t
Return(m, r, t) == [m EXCEPT !.pc = "idle", !.ret = r, !.callEnd = t]

(***************************************************************************)
(* begin(), WiFiEnterprise.cpp:6-60                                        *)
(***************************************************************************)
\* mutant: begin() leaves _debugEnabled as setDebug() set it
begin_entry_keep(m, ssid, username, password, enableDebug, t) ==
    LET e == [Enter(m, "begin", t) EXCEPT !.ssid = ssid, !.username = username,
                                          !.password = password,
                                          !.enableDebug = enableDebug]
    IN  [debugPrint(e, 3) EXCEPT !.pc = "b14"]

\* mutant: begin() can switch debug output on but not off
begin_entry_sticky(m, ssid, username, password, enableDebug, t) ==
    LET e == [Enter(m, "begin", t) EXCEPT !.ssid = ssid, !.username = username,
                                          !.password = password,
                                          !.enableDebug = enableDebug,
                                          !.debugEnabled = @ \/ enableDebug]
    IN  [debugPrint(e, 3) EXCEPT !.pc = "b14"]

\* lines 6-11: _debugEnabled = enableDebug; three debugPrint lines
begin_entry(m, ssid, username, password, enableDebug, t) ==
    LET e == [Enter(m, "begin", t) EXCEPT !.ssid = ssid, !.username = username,
                                          !.password = password,
                                          !.enableDebug = enableDebug,
                                          !.debugEnabled = enableDebug]
    IN  [debugPrint(e, 3) EXCEPT !.pc = "b14"]

\* line 14: WiFi.disconnect(true)
begin_disconnect(m) == [Issue(m, "disconnect", TRUE) EXCEPT !.pc = "b15"]

\* line 15: delay(1000)
begin_settle(m) == [m EXCEPT !.pc = "b18"]

\* lines 18-20: WiFi.mode(WIFI_STA); debugPrint
begin_mode(m) == [debugPrint(Issue(m, "mode", "WIFI_STA"), 1) EXCEPT !.pc = "b23"]

\* mutant: the outer identity is the fixed string 'anonymous'
begin_identity_anonymous(m) ==
    [Issue(m, "set_identity", "anonymous") EXCEPT !.pc = "b24"]

\* line 23: esp_wifi_sta_wpa2_ent_set_identity(username)
begin_identity(m) == [Issue(m, "set_identity", m.username) EXCEPT !.pc = "b24"]

\* line 24: esp_wifi_sta_wpa2_ent_set_username(username)
begin_username(m) == [Issue(m, "set_username", m.username) EXCEPT !.pc = "b25"]

\* mutant: the password register is programmed with the username
begin_password_as_username(m) ==
    [Issue(m, "set_password", m.username) EXCEPT !.pc = "b28"]

\* line 25: esp_wifi_sta_wpa2_ent_set_password(password)
begin_password(m) == [Issue(m, "set_password", m.password) EXCEPT !.pc = "b28"]

\* mutant: enterprise mode is only enabled when the driver does not have it on already
begin_enable_once(m) ==
    IF m.drv.ent THEN [debugPrint(m, 1) EXCEPT !.pc = "b33"]
    ELSE [debugPrint(Issue(m, "enable", TRUE), 1) EXCEPT !.pc = "b33"]

\* lines 28-30: esp_wifi_sta_wpa2_ent_enable(); debugPrint
begin_enable(m) == [debugPrint(Issue(m, "enable", TRUE), 1) EXCEPT !.pc = "b33"]

\* line 33: WiFi.begin(ssid)
begin_associate(m) == [Issue(m, "begin", m.ssid) EXCEPT !.pc = "b36"]

\* mutant: the timeout is measured from the call, not from the association
begin_start_early(m, t) == [m EXCEPT !.startTime = m.callStart, !.pc = "b39"]

\* lines 36-37: startTime = millis()
begin_start(m, t) == [m EXCEPT !.startTime = t, !.pc = "b39"]

\* mutant: the loop waits out the whole timeout whatever the status
begin_poll_fixed_wait(m, st, t) ==
    LET again == Elapsed(t, m.startTime) < timeout
    IN  [m EXCEPT !.reads = @ + 1,
                  !.firstConn = IF m.firstConn = 0 /\ st = WL_CONNECTED
                                THEN m.reads + 1 ELSE m.firstConn,
                  !.loopExit = IF again THEN None
                               ELSE IF st = WL_CONNECTED THEN "connected" ELSE "timeout",
                  !.pc = IF again THEN "b40" ELSE "b46"]

\* mutant: the timeout test is <= where the code has <
begin_poll_inclusive(m, st, t) ==
    LET again == st # WL_CONNECTED /\ Elapsed(t, m.startTime) <= timeout
    IN  [m EXCEPT !.reads = @ + 1,
                  !.firstConn = IF m.firstConn = 0 /\ st = WL_CONNECTED
                                THEN m.reads + 1 ELSE m.firstConn,
                  !.loopExit = IF again THEN None
                               ELSE IF st = WL_CONNECTED THEN "connected" ELSE "timeout",
                  !.pc = IF again THEN "b40" ELSE "b46"]

\* mutant: the loop gives up at once on a status that names a hard failure
begin_poll_impatient(m, st, t) ==
    LET again == /\ st \notin {WL_CONNECTED, WL_CONNECT_FAILED, WL_NO_SSID_AVAIL}
                 /\ Elapsed(t, m.startTime) < timeout
    IN  [m EXCEPT !.reads = @ + 1,
                  !.firstConn = IF m.firstConn = 0 /\ st = WL_CONNECTED
                                THEN m.reads + 1 ELSE m.firstConn,
                  !.loopExit = IF again THEN None
                               ELSE IF st = WL_CONNECTED THEN "connected" ELSE "timeout",
                  !.pc = IF again THEN "b40" ELSE "b46"]

\* mutant: the loop compares the clock with a deadline, startTime + timeout in 32 bits
begin_poll_deadline(m, st, t) ==
    LET deadline == (m.startTime + timeout \div MsPerTick) % ClockTicks
        again == st # WL_CONNECTED /\ t < deadline
    IN  [m EXCEPT !.reads = @ + 1,
                  !.firstConn = IF m.firstConn = 0 /\ st = WL_CONNECTED
                                THEN m.reads + 1 ELSE m.firstConn,
                  !.loopExit = IF again THEN None
                               ELSE IF st = WL_CONNECTED THEN "connected" ELSE "timeout",
                  !.pc = IF again THEN "b40" ELSE "b46"]

\* line 39: while (WiFi.status() != WL_CONNECTED && (millis() - startTime) < timeout)
begin_poll(m, st, t) ==
    LET again == st # WL_CONNECTED /\ Elapsed(t, m.startTime) < timeout
    IN  [m EXCEPT !.reads = @ + 1,
                  !.firstConn = IF m.firstConn = 0 /\ st = WL_CONNECTED
                                THEN m.reads + 1 ELSE m.firstConn,
                  !.loopExit = IF again THEN None
                               ELSE IF st = WL_CONNECTED THEN "connected" ELSE "timeout",
                  !.pc = IF again THEN "b40" ELSE "b46"]

\* mutant: the braces of the if are lost and the poll counts only under debug
begin_sleep_debug_only(m) ==
    [m EXCEPT !.sleeps = IF m.debugEnabled THEN @ + 1 ELSE @,
              !.dots = IF m.debugEnabled THEN @ + 1 ELSE @,
              !.pc = IF m.debugEnabled THEN "b39" ELSE "b46"]

\* mutant: the loop body retries the association on every poll
begin_sleep_retry(m) ==
    [Issue(m, "begin", m.ssid) EXCEPT !.sleeps = @ + 1,
                                      !.dots = IF m.debugEnabled THEN @ + 1 ELSE @,
                                      !.pc = "b39"]

\* mutant: the progress dot is printed whatever the debug flag
begin_sleep_dots(m) ==
    [m EXCEPT !.sleeps = @ + 1, !.dots = @ + 1, !.pc = "b39"]

\* lines 40-43: delay(500); a progress dot when _debugEnabled
begin_sleep(m) ==
    [m EXCEPT !.sleeps = @ + 1,
              !.dots = IF m.debugEnabled THEN @ + 1 ELSE @,
              !.pc = "b39"]

\* mutant: the outcome is what ended the loop, not a fresh status read
begin_result_loop(m, st, t) ==
    LET r == [m EXCEPT !.finalRead = st]
    IN  IF m.loopExit = "connected"
        THEN Return(debugPrint([r EXCEPT !.connected = TRUE], 2), TRUE, t)
        ELSE [debugPrint([r EXCEPT !.connected = FALSE], 2) EXCEPT !.pc = "b57"]

\* mutant: a lost connection is taken for a passing fault and the flag is kept
begin_result_cause(m, st, t) ==
    LET r == [m EXCEPT !.finalRead = st]
    IN  IF st = WL_CONNECTED
        THEN Return(debugPrint([r EXCEPT !.connected = TRUE], 2), TRUE, t)
        ELSE [debugPrint([r EXCEPT !.connected = (st = WL_CONNECTION_LOST /\ @)], 2)
                 EXCEPT !.pc = "b57"]

\* mutant: the flag records how the loop ended, the result follows the read
begin_result_loop_flag(m, st, t) ==
    LET r == [m EXCEPT !.finalRead = st]
    IN  IF st = WL_CONNECTED
        THEN Return(debugPrint([r EXCEPT !.connected = (m.loopExit = "connected")], 2),
                    TRUE, t)
        ELSE [debugPrint([r EXCEPT !.connected = FALSE], 2) EXCEPT !.pc = "b57"]

\* lines 46-55: if (WiFi.status() == WL_CONNECTED) ... else ...
begin_result(m, st, t) ==
    LET r == [m EXCEPT !.finalRead = st]
    IN  IF st = WL_CONNECTED
        THEN Return(debugPrint([r EXCEPT !.connected = TRUE], 2), TRUE, t)
        ELSE [debugPrint([r EXCEPT !.connected = FALSE], 2) EXCEPT !.pc = "b57"]

\* mutant: the failure path returns without disabling enterprise mode
begin_fail_no_disable(m, t) == Return(m, FALSE, t)

\* mutant: the failure path also cancels the association
begin_fail_disconnect(m, t) ==
    Return(Issue(Issue(m, "disable", TRUE), "disconnect", TRUE), FALSE, t)

\* lines 57-58: esp_wifi_sta_wpa2_ent_disable(); return false
begin_fail(m, t) == Return(Issue(m, "disable", TRUE), FALSE, t)

(***************************************************************************)
(* end(), WiFiEnterprise.cpp:62-73                                         *)
(***************************************************************************)
\* line 63: debugPrint
end_entry(m, t) == [debugPrint(Enter(m, "end", t), 1) EXCEPT !.pc = "e66"]

\* line 66: esp_wifi_sta_wpa2_ent_disable()
end_disable(m) == [Issue(m, "disable", TRUE) EXCEPT !.pc = "e69"]

\* line 69: WiFi.disconnect(true)
end_disconnect(m) == [Issue(m, "disconnect", TRUE) EXCEPT !.pc = "e71"]

\* mutant: end() forgets to clear _connected
end_finish_stale(m, t) == Return(debugPrint(m, 1), "void", t)

\* mutant: end() switches debug output off when it is done
end_finish_quiet(m, t) ==
    Return([debugPrint([m EXCEPT !.connected = FALSE], 1) EXCEPT !.debugEnabled = FALSE],
           "void", t)

\* lines 71-72: _connected = false; debugPrint
end_finish(m, t) == Return(debugPrint([m EXCEPT !.connected = FALSE], 1), "void", t)

(***************************************************************************)
(* The accessors, WiFiEnterprise.cpp:75-89                                 *)
(***************************************************************************)
\* mutant: isConnected() answers from the cached flag
isConnected_cached(m, st, t) ==
    Return(Enter(m, "isConnected", t), m.connected, t)

\* mutant: isConnected() also refreshes the cached flag
isConnected_sync(m, st, t) ==
    Return([Enter(m, "isConnected", t) EXCEPT !.connected = (st = WL_CONNECTED)],
           st = WL_CONNECTED, t)

\* isConnected(): return (WiFi.status() == WL_CONNECTED)
isConnected(m, st, t) ==
    Return(Enter(m, "isConnected", t), st = WL_CONNECTED, t)

\* mutant: status() answers from the cached flag when it is false
status_cached(m, st, t) ==
    Return(Enter(m, "status", t), IF m.connected THEN st ELSE WL_DISCONNECTED, t)

\* status(): return WiFi.status()
status_(m, st, t) ==
    Return(Enter(m, "status", t), st, t)

\* mutant: localIP() answers the zero address while the cached flag is false
localIP_guarded(m, addr, t) ==
    Return(Enter(m, "localIP", t), IF m.connected THEN addr ELSE ZeroIP, t)

\* localIP(): return WiFi.localIP()
localIP(m, addr, t) ==
    Return(Enter(m, "localIP", t), addr, t)

\* setDebug(enable): _debugEnabled = enable
setDebug(m, enable, t) ==
    Return([Enter(m, "setDebug", t) EXCEPT !.enable = enable, !.debugEnabled = enable],
           "void", t)

(***************************************************************************)
(* One step of the call in flight, by its position                         *)
(***************************************************************************)
Step(m, st, t) ==
    CASE m.pc = "b14" -> begin_disconnect(m)
      [] m.pc = "b15" -> begin_settle(m)
      [] m.pc = "b18" -> begin_mode(m)
      [] m.pc = "b23" -> begin_identity(m)
      [] m.pc = "b24" -> begin_username(m)
      [] m.pc = "b25" -> begin_password(m)
      [] m.pc = "b28" -> begin_enable(m)
      [] m.pc = "b33" -> begin_associate(m)
      [] m.pc = "b36" -> begin_start(m, t)
      [] m.pc = "b39" -> begin_poll(m, st, t)
      [] m.pc = "b40" -> begin_sleep(m)
      [] m.pc = "b46" -> begin_result(m, st, t)
      [] m.pc = "b57" -> begin_fail(m, t)
      [] m.pc = "e66" -> end_disable(m)
      [] m.pc = "e69" -> end_disconnect(m)
      [] m.pc = "e71" -> end_finish(m, t)
      [] OTHER        -> m

(***************************************************************************)
(* Initial state                                                           *)
(***************************************************************************)
Init ==
    /\ w = MachineInit
    /\ twin = MachineInit
    /\ status \in wl_status_t
    /\ ip \in IPAddress
    /\ now \in StartTimes
    /\ reply = None
    /\ seen = None
    /\ hist = None
    /\ sk = None
    /\ connSlept = 0

(***************************************************************************)
(* Actions                                                                 *)
(***************************************************************************)
Idle == w.pc = "idle"

\* the caller invokes begin(ssid, username, password, enableDebug); the clock
\* shows whatever time has passed since the last call
CallBegin ==
    /\ Idle
    /\ now' \in StartTimes
    /\ \E s \in Ssids, a \in Accounts, d \in BOOLEAN :
          w' = begin_entry(w, s, a[1], a[2], d, now')
    /\ reply' = None
    /\ seen' = None
    /\ connSlept' = 0
    /\ UNCHANGED <<status, ip>>

\* begin() runs one statement that neither sleeps nor reads the status register
BeginConfigure ==
    /\ w.pc \in {"b14", "b18", "b23", "b24", "b25", "b28", "b33", "b36", "b57"}
    /\ w' = Step(w, status, now)
    /\ connSlept' = 0
    /\ UNCHANGED <<status, ip, now, reply, seen>>

\* mutant: the settle delay is left out
BeginSettle_none ==
    /\ w.pc = "b15"
    /\ w' = Step(w, status, now)
    /\ UNCHANGED <<status, ip, now, reply, seen, connSlept>>

\* begin() sleeps the settle delay
BeginSettle ==
    /\ w.pc = "b15"
    /\ w' = Step(w, status, now)
    /\ now' = delay(now, SettleDelay)
    /\ UNCHANGED <<status, ip, reply, seen, connSlept>>

\* begin() evaluates the loop condition
BeginPoll ==
    /\ w.pc = "b39"
    /\ w' = Step(w, status, now)
    /\ UNCHANGED <<status, ip, now, reply, seen, connSlept>>

\* mutant: the loop spins without sleeping, the clock does not move
BeginSleep_busy ==
    /\ w.pc = "b40"
    /\ w' = Step(w, status, now)
    /\ connSlept' = 0
    /\ UNCHANGED <<status, ip, now, reply, seen>>

\* begin() sleeps one poll interval
BeginSleep ==
    /\ w.pc = "b40"
    /\ w' = Step(w, status, now)
    /\ now' = delay(now, PollDelay)
    /\ connSlept' = IF status = WL_CONNECTED THEN connSlept + PollDelay ELSE 0
    /\ UNCHANGED <<status, ip, reply, seen>>

\* begin() reads the status register after the loop and decides
BeginResult ==
    /\ w.pc = "b46"
    /\ w' = Step(w, status, now)
    /\ connSlept' = 0
    /\ UNCHANGED <<status, ip, now, reply, seen>>

\* the caller invokes end()
CallEnd ==
    /\ Idle
    /\ now' \in StartTimes
    /\ w' = end_entry(w, now')
    /\ reply' = None
    /\ seen' = None
    /\ UNCHANGED <<status, ip, connSlept>>

\* end() runs one statement
EndStep ==
    /\ w.pc \in {"e66", "e69", "e71"}
    /\ w' = Step(w, status, now)
    /\ UNCHANGED <<status, ip, now, reply, seen, connSlept>>

CallIsConnected ==
    /\ Idle
    /\ now' \in StartTimes
    /\ w' = isConnected(w, status, now')
    /\ reply' = status
    /\ seen' = status
    /\ UNCHANGED <<status, ip, connSlept>>

CallStatus ==
    /\ Idle
    /\ now' \in StartTimes
    /\ w' = status_(w, status, now')
    /\ reply' = status
    /\ seen' = status
    /\ UNCHANGED <<status, ip, connSlept>>

CallLocalIP ==
    /\ Idle
    /\ now' \in StartTimes
    /\ w' = localIP(w, ip, now')
    /\ reply' = ip
    /\ seen' = status
    /\ UNCHANGED <<status, ip, connSlept>>

CallSetDebug ==
    /\ Idle
    /\ now' \in StartTimes
    /\ \E e \in BOOLEAN : w' = setDebug(w, e, now')
    /\ reply' = None
    /\ seen' = None
    /\ UNCHANGED <<status, ip, connSlept>>

\* the driver's status register changes (the radio task runs on its own)
StatusChange ==
    /\ \E s \in wl_status_t \ {status} : status' = s
    /\ connSlept' = 0
    /\ UNCHANGED <<w, ip, now, reply, seen>>

\* the driver's assigned address changes
AddressChange ==
    /\ \E a \in IPAddress \ {ip} : ip' = a
    /\ UNCHANGED <<w, status, now, reply, seen, connSlept>>

Next ==
    \/ CallBegin /\ UNCHANGED <<twin, hist, sk>>
    \/ BeginConfigure /\ UNCHANGED <<twin, hist, sk>>
    \/ BeginSettle /\ UNCHANGED <<twin, hist, sk>>
    \/ BeginPoll /\ UNCHANGED <<twin, hist, sk>>
    \/ BeginSleep /\ UNCHANGED <<twin, hist, sk>>
    \/ BeginResult /\ UNCHANGED <<twin, hist, sk>>
    \/ CallEnd /\ UNCHANGED <<twin, hist, sk>>
    \/ EndStep /\ UNCHANGED <<twin, hist, sk>>
    \/ CallIsConnected /\ UNCHANGED <<twin, hist, sk>>
    \/ CallStatus /\ UNCHANGED <<twin, hist, sk>>
    \/ CallLocalIP /\ UNCHANGED <<twin, hist, sk>>
    \/ CallSetDebug /\ UNCHANGED <<twin, hist, sk>>
    \/ StatusChange /\ UNCHANGED <<twin, hist, sk>>
    \/ AddressChange /\ UNCHANGED <<twin, hist, sk>>

Spec == Init /\ [][Next]_vars

(***************************************************************************)
(* Pair runs: two machines, the same calls but for the debug arguments, and *)
(* the same driver answers                                                 *)
(***************************************************************************)
\* the second machine's log keeps no record of its setDebug() arguments
Unmarked(m) == [m EXCEPT !.setBefore = {}, !.enable = FALSE]

\* the second machine takes the step of its own position, on the same answers
TwinStep == twin' = Step(twin, status, now)

PairCallBegin ==
    /\ CallBegin
    /\ twin.pc = "idle"
    /\ \E d \in BOOLEAN :
          twin' = Unmarked(begin_entry(twin, w'.ssid, w'.username, w'.password, d, now'))

PairCallEnd == CallEnd /\ twin.pc = "idle" /\ twin' = Unmarked(end_entry(twin, now'))

PairCallIsConnected ==
    CallIsConnected /\ twin.pc = "idle" /\ twin' = Unmarked(isConnected(twin, status, now'))

PairCallStatus ==
    CallStatus /\ twin.pc = "idle" /\ twin' = Unmarked(status_(twin, status, now'))

PairCallLocalIP ==
    CallLocalIP /\ twin.pc = "idle" /\ twin' = Unmarked(localIP(twin, ip, now'))

PairCallSetDebug ==
    /\ CallSetDebug
    /\ twin.pc = "idle"
    /\ \E e \in BOOLEAN : twin' = Unmarked(setDebug(twin, e, now'))

NextPair ==
    \/ PairCallBegin /\ UNCHANGED <<hist, sk>>
    \/ BeginConfigure /\ TwinStep /\ UNCHANGED <<hist, sk>>
    \/ BeginSettle /\ TwinStep /\ UNCHANGED <<hist, sk>>
    \/ BeginPoll /\ TwinStep /\ UNCHANGED <<hist, sk>>
    \/ BeginSleep /\ TwinStep /\ UNCHANGED <<hist, sk>>
    \/ BeginResult /\ TwinStep /\ UNCHANGED <<hist, sk>>
    \/ PairCallEnd /\ UNCHANGED <<hist, sk>>
    \/ EndStep /\ TwinStep /\ UNCHANGED <<hist, sk>>
    \/ PairCallIsConnected /\ UNCHANGED <<hist, sk>>
    \/ PairCallStatus /\ UNCHANGED <<hist, sk>>
    \/ PairCallLocalIP /\ UNCHANGED <<hist, sk>>
    \/ PairCallSetDebug /\ UNCHANGED <<hist, sk>>
    \/ StatusChange /\ UNCHANGED <<twin, hist, sk>>
    \/ AddressChange /\ UNCHANGED <<twin, hist, sk>>

SpecPair == Init /\ [][NextPair]_vars

(***************************************************************************)
(* What the test log shows                                                 *)
(***************************************************************************)
\* the driver commands of one begin() up to the association, in order
BeginSeq ==
    <<"disconnect", "mode", "set_identity", "set_username", "set_password",
      "enable", "begin">>

IsPrefix(a, b) == Len(a) <= Len(b) /\ a = SubSeq(b, 1, Len(a))

Last(q) == q[Len(q)]

BeginReturned == w.op = "begin" /\ w.pc = "idle"
EndReturned == w.op = "end" /\ w.pc = "idle"

\* no status read of the call, in the loop or after it, was WL_CONNECTED
NeverConnected == w.firstConn = 0 /\ w.finalRead # WL_CONNECTED

\* ms from the call to its return
CallDuration == Elapsed(w.callEnd, w.callStart)

\* ms from startTime = millis() to the return
PollDuration == Elapsed(w.callEnd, w.startTime)

(***************************************************************************)
(* C1                                                                      *)
(***************************************************************************)
\* C1: every begin() issues force-disconnect, select-station-mode, set-identity,
\* set-username, set-password, enable-enterprise, initiate-association in that
\* order, each exactly once: while the call runs its commands are a prefix of
\* that sequence, the poll loop adds none, and on return the commands are that
\* sequence, followed by enterprise-disable alone when the call fails.
C1_CommandSequence ==
    w.op = "begin" =>
        /\ IsPrefix(w.cmds, BeginSeq \o <<"disable">>)
        /\ w.pc \in {"b36", "b39", "b40", "b46", "b57"} => w.cmds = BeginSeq
        /\ w.pc = "idle" =>
              w.cmds = IF w.ret = TRUE THEN BeginSeq ELSE BeginSeq \o <<"disable">>

\* a begin() that polled up to the timeout and failed has returned
C1_Witness == BeginReturned /\ w.loopExit = "timeout" /\ w.ret = FALSE /\ w.sleeps > 1

(***************************************************************************)
(* C2                                                                      *)
(***************************************************************************)
\* C2 as stated: begin() returns true with connected=true if some poll of the
\* loop read 'connected' before the timeout, and otherwise returns false with
\* connected=false and enterprise mode disabled.
C2_AsStated ==
    BeginReturned =>
        IF w.firstConn > 0
        THEN w.ret = TRUE /\ w.connected
        ELSE w.ret = FALSE /\ ~w.connected /\ Last(w.cmds) = "disable" /\ ~w.drv.ent

\* C2 amended: begin() returns true with connected=true exactly when the status
\* read it takes after the poll loop has ended is 'connected' (whatever ended
\* the loop); otherwise it returns false, leaves connected=false and has called
\* enterprise-disable on the driver.
C2_ResultFollowsFinalRead ==
    BeginReturned =>
        IF w.finalRead = WL_CONNECTED
        THEN w.ret = TRUE /\ w.connected /\ w.drv.ent
        ELSE w.ret = FALSE /\ ~w.connected /\ Last(w.cmds) = "disable" /\ ~w.drv.ent

\* a poll read 'connected', the read after the loop did not, and begin() returned false
C2_Witness ==
    BeginReturned /\ w.firstConn > 0 /\ w.finalRead # WL_CONNECTED /\ w.ret = FALSE

(***************************************************************************)
(* C3                                                                      *)
(***************************************************************************)
\* C3: when no status read of a begin() call is 'connected', the call returns
\* false after 20000 ms of polling give or take one 500 ms poll interval, that
\* is after 39 to 41 poll sleeps, and enterprise mode is disabled on return.
C3_TimeoutFailure ==
    (BeginReturned /\ NeverConnected) =>
        /\ w.ret = FALSE
        /\ w.sleeps \in 39..41
        /\ PollDuration >= timeout - PollDelay
        /\ PollDuration <= timeout + PollDelay
        /\ Last(w.cmds) = "disable"
        /\ ~w.drv.ent

\* a begin() that never saw 'connected' has returned
C3_Witness == BeginReturned /\ NeverConnected /\ w.loopExit = "timeout"

(***************************************************************************)
(* C4                                                                      *)
(***************************************************************************)
\* C4: begin() does not wait once the driver reports 'connected': when the
\* first status poll reads 'connected' the loop sleeps not at all (no more than
\* one poll interval passes after the association is initiated), and the call
\* returns true if the driver still reports 'connected' at the read after the
\* loop; in general the poll loop never sleeps more than one poll interval
\* while the driver keeps reporting 'connected'.
C4_NoUnnecessaryWait ==
    /\ connSlept <= PollDelay
    /\ (w.op = "begin" /\ w.firstConn = 1) => w.sleeps <= 1
    /\ (BeginReturned /\ w.firstConn = 1) => PollDuration <= PollDelay
    /\ (BeginReturned /\ w.firstConn > 0 /\ w.finalRead = WL_CONNECTED) => w.ret = TRUE

\* the first poll read 'connected' and begin() returned true without a sleep
C4_Witness == BeginReturned /\ w.firstConn = 1 /\ w.ret = TRUE /\ w.sleeps = 0

(***************************************************************************)
(* C5                                                                      *)
(***************************************************************************)
\* the driver is not 'connected' at the first three polls and 'connected' from the fourth on
C5_Scenario ==
    /\ BeginReturned
    /\ w.ssid = "Corp" /\ w.username = "alice" /\ w.password = "secret"
    /\ w.firstConn = 4
    /\ w.finalRead = WL_CONNECTED

\* C5 as stated: in that scenario begin("Corp","alice","secret") returns true
\* about 2000 ms after the call (less than one poll interval away from it).
C5_AsStated ==
    C5_Scenario =>
        /\ w.ret = TRUE
        /\ CallDuration > 2000 - PollDelay
        /\ CallDuration < 2000 + PollDelay

\* C5 amended: in that scenario begin("Corp","alice","secret") returns true
\* 2500 ms after the call (the 1000 ms settle delay and three poll sleeps of
\* 500 ms), and a localIP() called while the wrapper holds connected=true
\* returns the address the driver answers.
C5_ReturnsAt2500 ==
    /\ C5_Scenario =>
          /\ w.ret = TRUE /\ w.connected
          /\ w.sleeps = 3
          /\ CallDuration = SettleDelay + 3 * PollDelay
          /\ CallDuration = 2500
    /\ (w.op = "localIP" /\ w.pc = "idle" /\ w.connected) => w.ret = reply

\* the scenario has happened
C5_Witness == C5_Scenario /\ w.ret = TRUE

(***************************************************************************)
(* C6                                                                      *)
(***************************************************************************)
\* C6 as stated: a begin() call takes at most 20000 ms from call to return.
C6_AsStated == BeginReturned => CallDuration <= timeout

\* C6 amended: a begin() call takes at most 21000 ms from call to return: the
\* 1000 ms settle delay and at most 20000 ms of polling (40 sleeps of 500 ms).
C6_AtMostSettlePlusTimeout ==
    w.op = "begin" =>
        /\ w.sleeps <= timeout \div PollDelay
        /\ Elapsed(now, w.callStart) <= SettleDelay + timeout
        /\ w.pc = "idle" => CallDuration <= SettleDelay + timeout

\* a begin() call that took the full 21000 ms has returned
C6_Witness == BeginReturned /\ CallDuration = SettleDelay + timeout

(***************************************************************************)
(* C7                                                                      *)
(***************************************************************************)
\* what outlives a call: the object's fields and the driver registers
Kept(m) == <<m.debugEnabled, m.connected, m.drv>>

\* a whole end() call
EndRun(m, t) == end_finish(end_disconnect(end_disable(end_entry(m, t))), t)

\* C7: end() is idempotent: after every end(), from any state, connected=false,
\* the call's driver commands were enterprise-disable then force-disconnect and
\* the driver is left disabled and disassociated; one more end() changes
\* nothing of the fields and the driver registers.
C7_EndIdempotent ==
    /\ EndReturned =>
          /\ ~w.connected
          /\ w.cmds = <<"disable", "disconnect">>
          /\ ~w.drv.ent /\ w.drv.assoc = None
          /\ Kept(EndRun(w, now)) = Kept(w)
    /\ w.pc = "idle" =>
          Kept(EndRun(EndRun(w, now), now)) = Kept(EndRun(w, now))

\* a second end() in a row has returned, after a begin() had programmed the driver
C7_Witness == EndReturned /\ w.endsInRow >= 2 /\ w.drv.identity # None

(***************************************************************************)
(* C8                                                                      *)
(***************************************************************************)
\* a machine without its debug flag and what it wrote to the diagnostic sink
Low(m) ==
    [m EXCEPT !.debugEnabled = FALSE, !.enableDebug = FALSE, !.enable = FALSE,
              !.setBefore = {}, !.lines = 0, !.dots = 0]

\* C8: two runs that differ only in the debug flag (setDebug() calls and the
\* enableDebug argument) and see the same driver answers agree at every step on
\* the driver commands, the number of polls, the position and return value of
\* the call and the connected flag.
C8_DebugHasNoEffect == Low(w) = Low(twin)

\* both runs returned from a begin() one of them ran with debug on, the other with debug off
C8_Witness ==
    /\ BeginReturned /\ twin.pc = "idle"
    /\ w.debugEnabled /\ ~twin.debugEnabled
    /\ w.lines > 0 /\ twin.lines = 0 /\ w.dots > 0

(***************************************************************************)
(* C9                                                                      *)
(***************************************************************************)
\* C9 as stated: a begin() or end() that directly follows setDebug(true) emits
\* its progress lines, and one that directly follows setDebug(false) emits
\* nothing.
C9_AsStated ==
    (w.op \in {"begin", "end"}) =>
        /\ w.setBefore = {TRUE} => w.lines > 0
        /\ w.setBefore = {FALSE} => (w.lines = 0 /\ w.dots = 0)

\* C9 amended: setDebug(e) sets the debug flag to e, and the flag decides what
\* end() emits: an end() that directly follows setDebug(true) emits its lines,
\* one that follows setDebug(false) emits none.  A begin() emits its progress
\* lines and dots exactly when its own enableDebug argument is true, whatever
\* setDebug() set before it.
C9_SetDebugGovernsEndOnly ==
    /\ (w.op = "setDebug" /\ w.pc = "idle") => w.debugEnabled = w.enable
    /\ w.op = "end" =>
          /\ w.lines > 0 <=> w.debugEnabled
          /\ w.setBefore # {} => w.setBefore = {w.debugEnabled}
          /\ w.pc = "idle" => w.lines = IF w.debugEnabled THEN 2 ELSE 0
    /\ w.op = "begin" =>
          /\ w.debugEnabled = w.enableDebug
          /\ w.lines > 0 <=> w.enableDebug
          /\ w.dots = IF w.enableDebug THEN w.sleeps ELSE 0

\* a begin() called without debug directly after setDebug(true) polled and emitted nothing
C9_Witness ==
    BeginReturned /\ w.setBefore = {TRUE} /\ w.enableDebug = FALSE
                  /\ w.sleeps > 0 /\ w.lines = 0 /\ w.dots = 0

(***************************************************************************)
(* C10                                                                     *)
(***************************************************************************)
\* C10: status() and localIP() return exactly what the driver answers, in
\* every state, whatever the connected flag and the debug flag hold.
C10_Passthrough ==
    (w.pc = "idle" /\ w.op \in {"status", "localIP"}) => w.ret = reply

\* status() returned 'connected' while the cached connected flag is false
C10_Witness ==
    w.pc = "idle" /\ w.op = "status" /\ w.ret = WL_CONNECTED /\ ~w.connected

(***************************************************************************)
(* C11: isConnected() returns true exactly when the driver's status        *)
(* register reads 'connected' at the moment of the call, whatever the      *)
(* cached flag holds: false after a successful begin() once the link is    *)
(* lost, true while the cached flag is still false.                        *)
(***************************************************************************)
IsConnectedReturned == w.pc = "idle" /\ w.op = "isConnected"

C11_IsConnectedLive ==
    IsConnectedReturned => /\ w.ret \in BOOLEAN
                           /\ w.ret = (seen = WL_CONNECTED)
                           /\ reply = seen

\* isConnected() answered false although the cached flag says connected
C11_Witness ==
    IsConnectedReturned /\ w.ret = FALSE /\ w.connected /\ seen = WL_CONNECTION_LOST

(***************************************************************************)
(* C12 as stated: whenever the connection is not established at the call,  *)
(* localIP() returns the zero address.                                     *)
(***************************************************************************)
LocalIPReturned == w.pc = "idle" /\ w.op = "localIP"

C12_AsStated ==
    (LocalIPReturned /\ seen # WL_CONNECTED) => w.ret = ZeroIP

(***************************************************************************)
(* C12 amended: localIP() does not look at the connection: while the       *)
(* driver's status is not 'connected' it still returns the address the     *)
(* driver reports, which is the zero address only if the driver says so.   *)
(***************************************************************************)
C12_UnguardedAddress ==
    (LocalIPReturned /\ seen # WL_CONNECTED) =>
        /\ w.ret \in IPAddress
        /\ w.ret = reply
        /\ (w.ret = ZeroIP) = (reply = ZeroIP)

\* localIP() returned a non-zero address while neither the driver nor the flag says connected
C12_Witness ==
    LocalIPReturned /\ seen # WL_CONNECTED /\ ~w.connected /\ w.ret # ZeroIP

(***************************************************************************)
(* History runs: begin() and end() calls in any order on one object, and   *)
(* beside it a reference machine that is a freshly constructed object on a *)
(* freshly reset driver at every begin(), given the same arguments and the *)
(* same driver answers                                                     *)
(***************************************************************************)
\* how the last completed call ended
LastOutcome ==
    IF w.op = "begin" THEN (IF w.ret = TRUE THEN "ok" ELSE "failed")
    ELSE IF w.op = "end" THEN "ended" ELSE None

FreshCallBegin ==
    /\ CallBegin
    /\ twin' = begin_entry(MachineInit, w'.ssid, w'.username, w'.password,
                           w'.enableDebug, now')
    /\ hist' = LastOutcome /\ UNCHANGED sk

FreshCallEnd == CallEnd /\ hist' = LastOutcome /\ UNCHANGED sk /\ UNCHANGED twin

NextFresh ==
    \/ FreshCallBegin
    \/ BeginConfigure /\ TwinStep /\ UNCHANGED <<hist, sk>>
    \/ BeginSettle /\ TwinStep /\ UNCHANGED <<hist, sk>>
    \/ BeginPoll /\ TwinStep /\ UNCHANGED <<hist, sk>>
    \/ BeginSleep /\ TwinStep /\ UNCHANGED <<hist, sk>>
    \/ BeginResult /\ TwinStep /\ UNCHANGED <<hist, sk>>
    \/ FreshCallEnd
    \/ EndStep /\ UNCHANGED <<twin, hist, sk>>
    \/ StatusChange /\ UNCHANGED <<twin, hist, sk>>

\* the address register plays no part in begin() and end(): it keeps one value
InitFresh == Init /\ ip = ZeroIP

SpecFresh == InitFresh /\ [][NextFresh]_vars

\* positions of begin() from which every driver register has been written by this call
Configured == {"b36", "b39", "b40", "b46", "b57", "idle"}

\* everything a begin() call does and leaves: its position, commands, reads,
\* sleeps, output, result, and what it has written so far
Outcome(m) ==
    [pc |-> m.pc, ret |-> m.ret, cmds |-> m.cmds, reads |-> m.reads,
     sleeps |-> m.sleeps, lines |-> m.lines, dots |-> m.dots,
     firstConn |-> m.firstConn, loopExit |-> m.loopExit, finalRead |-> m.finalRead,
     startTime |-> m.startTime, callStart |-> m.callStart, callEnd |-> m.callEnd,
     debugEnabled |-> m.debugEnabled,
     connected |-> IF m.pc = "idle" THEN {m.connected} ELSE {},
     drv |-> IF m.pc \in Configured THEN {m.drv} ELSE {}]

(***************************************************************************)
(* C13: begin() keeps no state that changes a later attempt: after any     *)
(* history (nothing, a failed begin(), a successful begin(), an end()) the *)
(* call runs exactly as on a fresh object and driver, issues the complete  *)
(* command sequence, and succeeds after a failed begin() whenever its      *)
(* final status read is 'connected'.                                       *)
(***************************************************************************)
C13_NoLeftoverState ==
    w.op = "begin" =>
        /\ Outcome(w) = Outcome(twin)
        /\ w.pc \in Configured => IsPrefix(BeginSeq, w.cmds)
        /\ (BeginReturned /\ hist = "failed" /\ w.finalRead = WL_CONNECTED)
               => w.ret = TRUE

\* a begin() that succeeded right after a failed begin() on the same object
C13_Witness ==
    /\ BeginReturned /\ hist = "failed" /\ w.ret = TRUE
    /\ w.cmds = BeginSeq /\ twin.ret = TRUE

(***************************************************************************)
(* C14 as stated: begin() returns false only after the full 20000 ms       *)
(* polling window has elapsed, never earlier.                              *)
(***************************************************************************)
C14_AsStated ==
    (BeginReturned /\ w.ret = FALSE) => PollDuration >= timeout

(***************************************************************************)
(* C14 amended: begin() returns false only when the status read after the  *)
(* loop is not 'connected'.  If no poll read 'connected' either, the full  *)
(* window has elapsed; a false return before that happens exactly when a   *)
(* poll read 'connected', ending the loop, and the read after it did not.  *)
(***************************************************************************)
C14_FalseReturn ==
    (BeginReturned /\ w.ret = FALSE) =>
        /\ w.finalRead # WL_CONNECTED
        /\ w.firstConn = 0 =>
              /\ w.loopExit = "timeout"
              /\ PollDuration >= timeout
              /\ w.sleeps = timeout \div PollDelay
        /\ PollDuration < timeout =>
              /\ w.loopExit = "connected"
              /\ w.firstConn = w.reads

\* false returned on the first poll: no time has passed since polling began
C14_Witness ==
    /\ BeginReturned /\ w.ret = FALSE
    /\ PollDuration = 0 /\ w.sleeps = 0 /\ w.loopExit = "connected"

(***************************************************************************)
(* Blind runs: beside the object under test, a second object gets the same *)
(* begin() calls on a driver that reports 'disconnected' wherever the      *)
(* first one's driver reports any status other than 'connected'            *)
(***************************************************************************)
Blur(st) == IF st \in wl_status_t \ {WL_CONNECTED} THEN WL_DISCONNECTED ELSE st

BlindStep == twin' = Step(twin, Blur(status), now)

BlindCallBegin ==
    /\ CallBegin
    /\ twin' = begin_entry(twin, w'.ssid, w'.username, w'.password, w'.enableDebug, now')

NextBlind ==
    \/ BlindCallBegin /\ UNCHANGED <<hist, sk>>
    \/ BeginConfigure /\ BlindStep /\ UNCHANGED <<hist, sk>>
    \/ BeginSettle /\ BlindStep /\ UNCHANGED <<hist, sk>>
    \/ BeginPoll /\ BlindStep /\ UNCHANGED <<hist, sk>>
    \/ BeginSleep /\ BlindStep /\ UNCHANGED <<hist, sk>>
    \/ BeginResult /\ BlindStep /\ UNCHANGED <<hist, sk>>
    \/ StatusChange /\ UNCHANGED <<twin, hist, sk>>

SpecBlind == InitFresh /\ [][NextBlind]_vars

(***************************************************************************)
(* C15: begin() does not tell failure causes apart: whichever statuses     *)
(* other than 'connected' the driver reports, the call runs as it does on  *)
(* plain 'disconnected'; a run that never reads 'connected' polls the full *)
(* window, issues the same commands, returns false and leaves              *)
(* connected = false, and no status value ends the polling early.          *)
(***************************************************************************)
C15_CauseBlind ==
    /\ [w EXCEPT !.finalRead = Blur(@)] = twin
    /\ (BeginReturned /\ NeverConnected) =>
          /\ w.sleeps = timeout \div PollDelay
          /\ w.reads = w.sleeps + 1
          /\ w.cmds = BeginSeq \o <<"disable">>
          /\ w.ret = FALSE /\ ~w.connected

\* a failed run whose last status was 'connect failed', beside the run on 'disconnected'
C15_Witness ==
    /\ BeginReturned /\ NeverConnected /\ w.ret = FALSE
    /\ w.finalRead = WL_CONNECT_FAILED /\ twin.finalRead = WL_DISCONNECTED
    /\ status = WL_NO_SSID_AVAIL

(***************************************************************************)
(* C16: the cached connected flag is a snapshot.  It is false initially;   *)
(* only the statement of begin() that decides on the final status read and *)
(* the statement of end() that clears it write it; after a begin() it      *)
(* tells whether that final read was 'connected', after an end() it is     *)
(* false; no other operation and no change of the driver's status alters   *)
(* it.                                                                     *)
(***************************************************************************)
FlagWrites ==
    /\ (w' # w /\ w.pc = "b46") => w'.connected = (status = WL_CONNECTED)
    /\ (w' # w /\ w.pc = "e71") => ~w'.connected
    /\ w.pc \notin {"b46", "e71"} => w'.connected = w.connected

FlagAtRest ==
    /\ BeginReturned => w.connected = (w.finalRead = WL_CONNECTED)
    /\ EndReturned => ~w.connected

C16_FlagIsSnapshot ==
    /\ ~w.connected
    /\ []FlagAtRest
    /\ [][FlagWrites]_vars

\* status() has since reported 'disconnected', the flag still says connected
C16_Witness ==
    /\ w.pc = "idle" /\ w.op = "status" /\ w.ret = WL_DISCONNECTED
    /\ w.connected /\ status = WL_DISCONNECTED

(***************************************************************************)
(* Race runs: two threads each call begin() once on the one global object. *)
(* w is the first thread's frame and twin the second's; the object's two   *)
(* fields and the driver's registers are one memory, so what a thread      *)
(* writes is at once in the other's view.  A thread is preempted between   *)
(* any two statements.  A thread gets at most MaxRacePolls sleeps.         *)
(***************************************************************************)
MaxRacePolls == 2

Share(from, to) ==
    [to EXCEPT !.debugEnabled = from.debugEnabled,
               !.connected = from.connected,
               !.drv = from.drv]

Fresh(m) == m.op = None /\ m.pc = "idle"

\* the sleep of the statement at position pc
Sleeps(pc, t) ==
    IF pc = "b15" THEN delay(t, SettleDelay)
    ELSE IF pc = "b40" THEN delay(t, PollDelay) ELSE t

\* the two callers' arguments: different accounts on the same network, no debug output
ArgsA == <<"Corp", "alice", "secret", FALSE>>
ArgsB == <<"Corp", "bob", "hunter2", FALSE>>

RaceCallA ==
    /\ Fresh(w)
    /\ w' = begin_entry(w, ArgsA[1], ArgsA[2], ArgsA[3], ArgsA[4], now)
    /\ twin' = Share(w', twin)
    /\ UNCHANGED <<status, ip, now, reply, seen, hist, sk, connSlept>>

RaceCallB ==
    /\ Fresh(twin)
    /\ twin' = begin_entry(twin, ArgsB[1], ArgsB[2], ArgsB[3], ArgsB[4], now)
    /\ w' = Share(twin', w)
    /\ UNCHANGED <<status, ip, now, reply, seen, hist, sk, connSlept>>

RaceStepA ==
    /\ w.pc # "idle"
    /\ w.pc = "b40" => w.sleeps < MaxRacePolls
    /\ w' = Step(w, status, now)
    /\ now' = Sleeps(w.pc, now)
    /\ twin' = Share(w', twin)
    /\ UNCHANGED <<status, ip, reply, seen, hist, sk, connSlept>>

RaceStepB ==
    /\ twin.pc # "idle"
    /\ twin.pc = "b40" => twin.sleeps < MaxRacePolls
    /\ twin' = Step(twin, status, now)
    /\ now' = Sleeps(twin.pc, now)
    /\ w' = Share(twin', w)
    /\ UNCHANGED <<status, ip, reply, seen, hist, sk, connSlept>>

\* the link comes up or goes down (the radio task runs on its own)
LinkChange ==
    /\ status' = IF status = WL_CONNECTED THEN WL_DISCONNECTED ELSE WL_CONNECTED
    /\ UNCHANGED <<w, twin, ip, now, reply, seen, hist, sk, connSlept>>

NextRace ==
    \/ RaceCallA
    \/ RaceCallB
    \/ RaceStepA
    \/ RaceStepB
    \/ LinkChange

InitRace == InitFresh /\ now = 0 /\ status \in {WL_DISCONNECTED, WL_CONNECTED}

SpecRace == InitRace /\ [][NextRace]_vars

Returned(m) == m.op = "begin" /\ m.pc = "idle"

\* the call took the failure path: its last driver command is enterprise-disable
FailPath(m) == m.cmds # <<>> /\ Last(m.cmds) = "disable"

\* positions of begin() from which the call has programmed all three credentials
Programmed == {"b28", "b33", "b36", "b39", "b40", "b46", "b57", "idle"}

\* the credential registers hold the username of a and the password of b
Mixed(a, b) ==
    /\ a.username # b.username /\ a.password # b.password
    /\ w.drv.username = a.username /\ w.drv.password = b.password

(***************************************************************************)
(* C17: concurrent begin() calls are unsafe.  Alone, a call has the        *)
(* registers hold its own credentials and returns true with enterprise     *)
(* mode on; with a second call in between, the registers may hold either   *)
(* call's values in any mixture, and a call that returns true finds        *)
(* enterprise mode off when, and only when, the other call has taken the   *)
(* failure path.  The state the claim describes is C17_Witness.            *)
(***************************************************************************)
C17_RaceOnDriver ==
    /\ w.drv = twin.drv /\ w.connected = twin.connected
    /\ (Fresh(twin) /\ w.op = "begin" /\ w.pc \in Programmed) =>
          /\ w.drv.identity = w.username /\ w.drv.username = w.username
          /\ w.drv.password = w.password
    /\ (Fresh(twin) /\ Returned(w) /\ w.ret = TRUE) => w.drv.ent /\ w.connected
    /\ (w.pc \in Programmed /\ twin.pc \in Programmed /\ ~Fresh(w) /\ ~Fresh(twin)) =>
          /\ w.drv.username \in {w.username, twin.username}
          /\ w.drv.password \in {w.password, twin.password}
    /\ (Returned(w) /\ w.ret = TRUE /\ ~w.drv.ent) => FailPath(twin)
    /\ (Returned(twin) /\ twin.ret = TRUE /\ ~w.drv.ent) => FailPath(w)

\* both calls have returned, one true and one false: the registers hold the
\* username of the first and the password of the second, and enterprise mode
\* is off although the first call reported success
C17_Witness ==
    /\ Returned(w) /\ Returned(twin)
    /\ w.ret = TRUE /\ twin.ret = FALSE
    /\ Mixed(w, twin)
    /\ ~w.drv.ent /\ FailPath(twin)
    /\ w.callStart < twin.callEnd /\ twin.callStart < w.callEnd

(***************************************************************************)
(* C18: on every call begin() programs the EAP identity with the username, *)
(* the username with the username and the password with the password       *)
(* argument, in that order, and then starts association with the SSID      *)
(* alone: from then on the driver holds (identity = username,              *)
(* username = username, password = password) of this call.                 *)
(***************************************************************************)
C18_Credentials ==
    (w.op = "begin" /\ w.pc \in Programmed) =>
        /\ w.drv.identity = w.username
        /\ w.drv.username = w.username
        /\ w.drv.password = w.password
        /\ <<w.username, w.password>> \in Accounts
        /\ IsPrefix(SubSeq(BeginSeq, 1, 5), w.cmds)
        /\ w.pc \in Configured => (w.drv.assoc = w.ssid /\ w.ssid \in Ssids)

\* a call for bob has returned with bob's credentials in the driver
C18_Witness ==
    /\ BeginReturned /\ w.username = "bob"
    /\ w.drv.identity = "bob" /\ w.drv.username = "bob"
    /\ w.drv.password = "hunter2" /\ w.drv.assoc = "Corp"

(***************************************************************************)
(* C19: begin() always terminates: a call in progress returns, whatever    *)
(* the driver reports.  Every position of the call has a next statement to *)
(* run; in the loop the elapsed time is 500 ms per sleep taken, so the     *)
(* loop is left after at most 40 sleeps; and it is left in exactly two     *)
(* ways: a poll read 'connected', or the elapsed time has reached          *)
(* 20000 ms.                                                               *)
(***************************************************************************)
BeginStep == BeginConfigure \/ BeginSettle \/ BeginPoll \/ BeginSleep \/ BeginResult

LoopElapsed == IF w.pc = "idle" THEN PollDuration ELSE Elapsed(now, w.startTime)

LoopBound ==
    w.op = "begin" =>
        /\ w.pc # "idle" => ENABLED BeginStep
        /\ w.sleeps <= timeout \div PollDelay
        /\ w.reads <= w.sleeps + 1
        /\ w.pc \in {"b39", "b40"} =>
              /\ w.loopExit = None
              /\ LoopElapsed = w.sleeps * PollDelay
              /\ w.pc = "b40" => w.sleeps < timeout \div PollDelay
        /\ w.pc \in {"b46", "b57", "idle"} =>
              /\ w.loopExit \in {"connected", "timeout"}
              /\ LoopElapsed = w.sleeps * PollDelay
              /\ w.loopExit = "connected" => w.firstConn = w.reads
              /\ w.loopExit = "timeout" =>
                    (LoopElapsed >= timeout /\ w.firstConn = 0)

\* the thread that called begin() keeps running it: the call blocks its caller
\* and nothing else runs on that thread
SpecLive == Spec /\ WF_vars(BeginStep /\ UNCHANGED <<twin, hist, sk>>)

C19_Terminates ==
    /\ []LoopBound
    /\ (w.op = "begin" /\ w.pc # "idle") ~> BeginReturned

\* the loop was left by the timeout after its 40th sleep, and begin() has returned
C19_Witness ==
    /\ BeginReturned /\ w.loopExit = "timeout"
    /\ w.sleeps = 40 /\ w.reads = 41 /\ PollDuration = timeout

(***************************************************************************)
(* C20: the outcome of begin() is decided by a status read taken after the *)
(* polling loop has been left, not by the poll that ended the loop: the    *)
(* call returns true exactly when that read is 'connected' (also when the  *)
(* loop had timed out, and not when the loop ended on 'connected' but the  *)
(* read no longer is), and on return the connected flag equals the         *)
(* returned value.                                                         *)
(***************************************************************************)
AfterLoop ==
    /\ (w.op = "begin" /\ w.pc = "b46") =>
          (w.loopExit \in {"connected", "timeout"} /\ w.finalRead = None /\ w.ret = None)
    /\ (w.op = "begin" /\ w.pc = "b57") =>
          (w.finalRead \in wl_status_t \ {WL_CONNECTED} /\ ~w.connected)
    /\ BeginReturned =>
          (w.ret \in BOOLEAN /\ w.ret = (w.finalRead = WL_CONNECTED) /\ w.connected = w.ret)

FinalRead ==
    (w.pc = "b46" /\ w' # w) =>
        /\ w'.finalRead = status
        /\ w'.reads = w.reads /\ w'.loopExit = w.loopExit
        /\ w'.connected = (status = WL_CONNECTED)
        /\ w'.pc = IF status = WL_CONNECTED THEN "idle" ELSE "b57"
        /\ status = WL_CONNECTED => w'.ret = TRUE

C20_FinalReadDecides == []AfterLoop /\ [][FinalRead]_vars

\* the loop timed out without a 'connected' poll, the read after it was
\* 'connected', and begin() returned true
C20_Witness ==
    /\ BeginReturned /\ w.ret = TRUE /\ w.connected
    /\ w.loopExit = "timeout" /\ w.firstConn = 0
    /\ w.sleeps = timeout \div PollDelay

(***************************************************************************)
(* C21: the timeout test is right across the wrap of the 32-bit            *)
(* millisecond clock.  A begin() whose polling starts less than 20000 ms   *)
(* before the clock wraps leaves the loop by timeout only after the full   *)
(* 40 sleeps, that is 20000 ms, the clock then showing less than at the    *)
(* start; before that it leaves the loop only on a 'connected' poll; and   *)
(* it never sleeps a 41st time.                                            *)
(***************************************************************************)
\* polling started less than the timeout before the clock wraps
NearWrap(m) ==
    m.startTime > 0 /\ ClockTicks - m.startTime < timeout \div MsPerTick

C21_WrapSafe ==
    (w.op = "begin" /\ w.pc \in {"b39", "b40", "b46", "b57", "idle"} /\ NearWrap(w)) =>
        /\ w.sleeps <= timeout \div PollDelay
        /\ LoopElapsed = w.sleeps * PollDelay
        /\ w.loopExit = "timeout" =>
              /\ w.sleeps = timeout \div PollDelay
              /\ LoopElapsed = timeout
              /\ (IF w.pc = "idle" THEN w.callEnd ELSE now) < w.startTime
        /\ w.sleeps < timeout \div PollDelay =>
              w.loopExit \in {None, "connected"}

\* a call that began polling 4000 ms before the wrap has timed out after 40
\* sleeps, 16000 ms after the wrap
C21_Witness ==
    /\ BeginReturned /\ NearWrap(w) /\ w.loopExit = "timeout"
    /\ w.sleeps = 40 /\ w.callEnd < w.startTime
    /\ w.callEnd * MsPerTick = 16000

(***************************************************************************)
(* C22: whenever no operation is in progress, the connected flag is true   *)
(* exactly when the last enterprise-mode command the wrapper gave the      *)
(* driver was enable: begin() returning true leaves enterprise mode on,    *)
(* begin() returning false and end() leave it off.                         *)
(***************************************************************************)
C22_FlagMatchesEnterpriseMode ==
    w.pc = "idle" =>
        /\ w.connected = w.drv.ent
        /\ (BeginReturned /\ w.ret = TRUE) =>
              (w.drv.ent /\ "disable" \notin {w.cmds[i] : i \in DOMAIN w.cmds})
        /\ (BeginReturned /\ w.ret = FALSE) => (~w.drv.ent /\ Last(w.cmds) = "disable")
        /\ EndReturned => (~w.drv.ent /\ w.cmds = <<"disable", "disconnect">>)

\* an end() on a driver that a begin() had configured: enterprise mode is off, the flag is false
C22_Witness ==
    /\ EndReturned /\ w.endsInRow = 1 /\ ~w.connected /\ ~w.drv.ent
    /\ w.drv.identity # None /\ w.drv.assoc = None

(***************************************************************************)
(* C23: the failure path of begin() does not cancel the association it     *)
(* started: after WiFi.begin(ssid) a failing call issues enterprise-       *)
(* disable and nothing else, so the driver still holds the association     *)
(* when begin() has returned false, and until the next begin() or end()    *)
(* the flag stays false whatever the driver then reports to isConnected(). *)
(***************************************************************************)
\* the registers as a failed begin() leaves them: associating, enterprise mode off
LeftAssociating(m) == m.drv.assoc \in Ssids /\ ~m.drv.ent

C23_FailureKeepsAssociation ==
    /\ (BeginReturned /\ w.ret = FALSE) =>
          /\ w.cmds = BeginSeq \o <<"disable">>
          /\ w.drv.assoc = w.ssid
          /\ LeftAssociating(w) /\ ~w.connected
    /\ (w.pc = "idle" /\ LeftAssociating(w)) => ~w.connected
    /\ (w.op = "begin" /\ w.pc = "b57") => (w.cmds = BeginSeq /\ w.drv.assoc = w.ssid)

\* after a failed begin() the driver connected after all: isConnected() says
\* true, the flag says false
C23_Witness ==
    /\ IsConnectedReturned /\ w.ret = TRUE /\ seen = WL_CONNECTED
    /\ LeftAssociating(w) /\ ~w.connected

(***************************************************************************)
(* C24: begin() overwrites the debug flag with its enableDebug argument    *)
(* before it emits anything: from its first statement on, and after its    *)
(* return, debugEnabled is that call's enableDebug whatever setDebug() had *)
(* set; and the flag keeps its value through end() and the accessors,      *)
(* until the next setDebug() or begin().                                   *)
(***************************************************************************)
FlagFromBegin ==
    w.op = "begin" =>
        /\ w.debugEnabled = w.enableDebug
        /\ w.pc = "b14" => w.lines = IF w.enableDebug THEN 3 ELSE 0

FlagKept ==
    w'.op \notin {"begin", "setDebug"} => w'.debugEnabled = w.debugEnabled

C24_BeginOverwritesDebug == []FlagFromBegin /\ [][FlagKept]_vars

\* setDebug(true), then begin() without debug: the flag is off from the first statement
C24_Witness ==
    /\ w.op = "begin" /\ w.pc = "b14" /\ w.setBefore = {TRUE}
    /\ ~w.enableDebug /\ ~w.debugEnabled /\ w.lines = 0

(***************************************************************************)
(* C25: the accessors change nothing: isConnected(), status() and          *)
(* localIP() leave debugEnabled, connected and the driver's registers as   *)
(* they are and issue no driver command; setDebug() changes debugEnabled   *)
(* only; end() leaves debugEnabled as it is.                               *)
(***************************************************************************)
Accessors == {"isConnected", "status", "localIP"}

Frame ==
    /\ w'.op \in Accessors => (Kept(w') = Kept(w) /\ w'.cmds = <<>>)
    /\ w'.op = "setDebug" =>
          (w'.connected = w.connected /\ w'.drv = w.drv /\ w'.cmds = <<>>)
    /\ w'.op = "end" => w'.debugEnabled = w.debugEnabled

C25_AccessorsChangeNothing == [][Frame]_vars

\* localIP() has returned on a connected, debugging object: all is as it was
C25_Witness ==
    /\ LocalIPReturned /\ w.ret # ZeroIP /\ w.cmds = <<>>
    /\ w.connected /\ w.debugEnabled /\ w.drv.ent

(***************************************************************************)
(* C26: nothing is written to the diagnostic sink while debugEnabled is    *)
(* false: a begin() called with enableDebug = false emits no line and no   *)
(* progress dot, an end() with the flag off emits nothing, and the         *)
(* accessors never emit.                                                   *)
(***************************************************************************)
C26_SilentWhenDebugOff ==
    /\ (w.op = "begin" /\ ~w.enableDebug) => (w.lines = 0 /\ w.dots = 0)
    /\ (w.op = "end" /\ ~w.debugEnabled) => (w.lines = 0 /\ w.dots = 0)
    /\ w.op \notin {"begin", "end"} => (w.lines = 0 /\ w.dots = 0)
    /\ ~w.debugEnabled => (w.lines = 0 /\ w.dots = 0)

\* a silent begin() has polled through the whole timeout without a dot
C26_Witness ==
    /\ BeginReturned /\ ~w.enableDebug /\ w.loopExit = "timeout"
    /\ w.sleeps = timeout \div PollDelay /\ w.dots = 0 /\ w.lines = 0

(***************************************************************************)
(* Sketch runs: an example sketch drives the object.  setup() runs once,   *)
(* then loop() over and over; the clock is the uptime, it starts at 0 and  *)
(* advances by the delays of the sketch and of begin().  A begin() call is *)
(* run to its return with the wrapper's own statements, against a link     *)
(* that answers the call's status reads by a schedule.  Between the steps  *)
(* of the sketch the link comes up or goes down on its own.                *)
(***************************************************************************)
DataLogger == "DataLogger"                   \* part_003:586-691
MqttClient == "MqttClient"                   \* part_000:153-251
StatusTest == "StatusTest"                   \* WebServer.ino:322-415
AdvancedConnection == "AdvancedConnection"   \* AdvancedConnection.ino
SimplePing == "SimplePing"                   \* SimplePing.ino:76-156
BasicConnection == "BasicConnection"         \* part_002:851-892

\* the sketches whose reconnection is paced by a 30 s timer
TimerSketches == {DataLogger, MqttClient, StatusTest}
\* the sketches that try to reconnect in the iteration that finds the link down
PlainSketches == {SimplePing, BasicConnection}
Sketches == TimerSketches \cup PlainSketches \cup {AdvancedConnection}

\* the sketches whose setup() never returns when the first begin() fails
Halting == {DataLogger, MqttClient, SimplePing}

RetryInterval == 30000
CHECK_INTERVAL == 5000
MAX_RECONNECT_ATTEMPTS == 3
\* the sketch is followed for this many seconds of uptime
MaxUptimeSec == 84
\* the link changes on its own at most this many times while the sketch is followed
MaxLinkChanges == 2
\* the link is left alone for this many ms of idle iterations of loop()
QuietMs == 2000

\* enableDebug of the begin() in setup() and of the begin() in loop()
SetupDebug(n) == n \in {DataLogger, MqttClient, AdvancedConnection, BasicConnection}
LoopDebug(n) == n \in {AdvancedConnection, BasicConnection}

\* the delay at the end of an iteration that found the link up
ConnectedDelay(n) ==
    CASE n = DataLogger -> 1000
      [] n = MqttClient -> 100
      [] n = StatusTest -> 900 + 100
      [] n = SimplePing -> 100
      [] n = BasicConnection -> 10000

\* the delay of the disconnected branch before it looks at its timer
HandlerDelay(n) ==
    CASE n = DataLogger -> 200
      [] n = MqttClient -> 100
      [] n = StatusTest -> 100 + 100
      [] OTHER -> 0

\* the delay after the reconnection attempt of the plain sketches
AfterDelay(n) ==
    CASE n = SimplePing -> 100
      [] n = BasicConnection -> 10000
      [] OTHER -> 0

\* the link during one begin(): the k-th status read of the call answers
\* 'connected' from read sch[1] on and before read sch[2]
Never == (timeout \div PollDelay) + 3
Schedules == {<<1, Never>>, <<1, 2>>, <<Never, Never>>}

LinkAt(k, sch) == IF sch[1] <= k /\ k < sch[2] THEN WL_CONNECTED ELSE WL_DISCONNECTED

\* begin() from the statement at m.pc to its return: the machine and the clock then
RECURSIVE RunBegin(_, _, _)
RunBegin(m, t, sch) ==
    IF m.pc = "idle" THEN [m |-> m, t |-> t]
    ELSE RunBegin(Step(m, LinkAt(m.reads + 1, sch), t), Sleeps(m.pc, t), sch)

\* WiFiEnterprise.begin(ssid, username, password[, debug]) called at time t
CallBeginAt(m, t, debug, sch) ==
    RunBegin(begin_entry(m, "Corp", "alice", "secret", debug, t), t, sch)

\* connectToNetwork() of AdvancedConnection.ino:112-135
connectToNetwork(m, t, sch) ==
    LET r == CallBeginAt(setDebug(m, TRUE, t), t, TRUE, sch)
    IN  [m |-> setDebug(r.m, FALSE, r.t), t |-> r.t, ok |-> r.m.ret,
         st |-> r.m.finalRead]

SketchInit(n) ==
    [name |-> n, pc |-> "setup",
     last |-> 0, lastCheck |-> 0, attempts |-> 0, was |-> FALSE,
     answer |-> {}, began |-> FALSE, fails |-> 0,
     prevStart |-> -1, prevOk |-> {}, pair |-> <<>>, flips |-> 0]

InitSketch ==
    /\ w = MachineInit
    /\ twin = MachineInit
    /\ status = WL_DISCONNECTED
    /\ ip = ZeroIP
    /\ now = 0
    /\ reply = None
    /\ seen = None
    /\ hist = None
    /\ connSlept = 0
    /\ \E n \in Sketches : sk = SketchInit(n)

\* setup(): delay(1000), then the first connection attempt
SketchSetup ==
    /\ sk.pc = "setup"
    /\ \E sch \in Schedules :
          LET t1 == delay(now, 1000)
              r == IF sk.name = AdvancedConnection
                   THEN connectToNetwork(w, t1, sch)
                   ELSE LET b == CallBeginAt(w, t1, SetupDebug(sk.name), sch)
                        IN  [m |-> b.m, t |-> b.t, ok |-> b.m.ret, st |-> b.m.finalRead]
          IN  /\ w' = r.m
              /\ now' = r.t
              /\ status' = r.st
              /\ sk' = [sk EXCEPT !.pc = IF ~r.ok /\ sk.name \in Halting
                                         THEN "halt" ELSE "loop"]
    /\ UNCHANGED <<twin, ip, reply, seen, hist, connSlept>>

MaxUptime == (MaxUptimeSec * 1000) \div MsPerTick

\* iterations of loop() that the link is left alone for, given the delay of one
Iterations(ms) == IF ms >= QuietMs THEN 1 ELSE QuietMs \div ms

\* k iterations of the connected branch of loop(): isConnected(), then the delay
RECURSIVE ConnectedRun(_, _, _, _, _)
ConnectedRun(m, st, t, ms, k) ==
    IF k = 0 THEN [m |-> m, t |-> t]
    ELSE ConnectedRun(isConnected(m, st, t), st, delay(t, ms), ms, k - 1)

\* the reconnection timer has run out: millis() - lastReconnectAttempt >= 30000
Due(t, last) == Elapsed(t, last) >= RetryInterval

\* mutant: a failed attempt does not restart the timer
AfterAttempt_unset(n, ok, t, last) ==
    CASE n = DataLogger -> IF ok THEN 0 ELSE last
      [] n = MqttClient -> last
      [] n = StatusTest -> IF ok THEN t ELSE last

\* the timer variable after an attempt that returned ok at time t:
\* part_003:683-689, part_000:245-249, WebServer.ino:407-413
AfterAttempt(n, ok, t, last) ==
    CASE n = DataLogger -> IF ok THEN 0 ELSE t
      [] n = MqttClient -> IF ok THEN last ELSE t
      [] n = StatusTest -> t

\* mutant: the counter is compared with <=
MayRetry_inclusive(attempts) == attempts <= MAX_RECONNECT_ATTEMPTS

\* AdvancedConnection.ino:86: reconnectAttempts < MAX_RECONNECT_ATTEMPTS
MayRetry(attempts) == attempts < MAX_RECONNECT_ATTEMPTS

\* mutant: the sketch reconnects in every iteration, to refresh the link
LinkDown_always(c) == TRUE

\* the branch of loop() that reconnects: isConnected() answered false
LinkDown(c) == ~c

\* loop(), to the point where the branch is chosen
LoopCheck ==
    /\ sk.pc = "loop"
    /\ now < MaxUptime
    /\ IF sk.name = AdvancedConnection /\ Elapsed(now, sk.lastCheck) < CHECK_INTERVAL
       THEN /\ sk' = [sk EXCEPT !.pc = "blink", !.answer = {}, !.began = FALSE]
            /\ UNCHANGED <<w, now>>
       ELSE LET m == isConnected(w, status, now)
                c == m.ret
            IN  /\ w' = IF sk.name = AdvancedConnection \/ LinkDown(c) THEN m
                        ELSE ConnectedRun(w, status, now, ConnectedDelay(sk.name),
                                          Iterations(ConnectedDelay(sk.name))).m
                /\ IF sk.name = AdvancedConnection
                   THEN /\ sk' = [sk EXCEPT
                                    !.lastCheck = now,
                                    !.answer = {c}, !.began = FALSE,
                                    !.attempts = IF c /\ ~sk.was THEN 0 ELSE @,
                                    !.was = c,
                                    !.fails = IF c THEN 0 ELSE @,
                                    !.pc = IF LinkDown(c)
                                           THEN (IF MayRetry(sk.attempts)
                                                 THEN "act" ELSE "blink")
                                           ELSE "blink"]
                        /\ now' = now
                   ELSE /\ sk' = [sk EXCEPT !.answer = {c}, !.began = FALSE,
                                            !.pc = IF LinkDown(c) THEN "act" ELSE "loop"]
                        /\ now' = IF LinkDown(c) THEN now
                                  ELSE ConnectedRun(w, status, now, ConnectedDelay(sk.name),
                                                    Iterations(ConnectedDelay(sk.name))).t
    /\ UNCHANGED <<twin, status, ip, reply, seen, hist, connSlept>>

\* the reconnection attempt recorded in the test log of the sketch
Logged(k, start, ok) ==
    [k EXCEPT !.began = TRUE, !.prevStart = start, !.prevOk = {ok},
              !.pair = IF k.prevStart >= 0
                       THEN <<k.prevOk, Min(Elapsed(start, k.prevStart), RetryInterval)>>
                       ELSE <<>>]

\* the iterations of loop() that find the link down and the timer running, k at most:
\* isConnected(), then the delay of the handler
RECURSIVE WaitRun(_, _, _, _, _, _)
WaitRun(m, st, t, last, ms, k) ==
    IF k = 0 \/ Due(delay(t, ms), last) THEN [m |-> m, t |-> t]
    ELSE WaitRun(isConnected(m, st, t), st, delay(t, ms), last, ms, k - 1)

\* the reconnecting branch of loop() in the timer sketches
TimerAct ==
    /\ sk.pc = "act"
    /\ sk.name \in TimerSketches
    /\ LET t1 == delay(now, HandlerDelay(sk.name))
       IN  IF Due(t1, sk.last)
           THEN \E sch \in Schedules :
                  LET r == CallBeginAt(w, t1, LoopDebug(sk.name), sch)
                  IN  /\ w' = r.m
                      /\ now' = r.t
                      /\ status' = r.m.finalRead
                      /\ sk' = [Logged(sk, t1, r.m.ret) EXCEPT
                                  !.last = AfterAttempt(sk.name, r.m.ret, r.t, sk.last),
                                  !.pc = "loop"]
           ELSE LET r == WaitRun(w, status, t1, sk.last, HandlerDelay(sk.name),
                                 Iterations(HandlerDelay(sk.name)) - 1)
                IN  /\ w' = r.m
                    /\ now' = r.t
                    /\ sk' = [sk EXCEPT !.pc = "loop"]
                    /\ UNCHANGED status
    /\ UNCHANGED <<twin, ip, reply, seen, hist, connSlept>>

\* the reconnecting branch of loop() in SimplePing and BasicConnection
PlainAct ==
    /\ sk.pc = "act"
    /\ sk.name \in PlainSketches
    /\ \E sch \in Schedules :
          LET r == CallBeginAt(w, now, LoopDebug(sk.name), sch)
          IN  /\ w' = r.m
              /\ now' = delay(r.t, AfterDelay(sk.name))
              /\ status' = r.m.finalRead
              /\ sk' = [sk EXCEPT !.began = TRUE, !.pc = "loop"]
    /\ UNCHANGED <<twin, ip, reply, seen, hist, connSlept>>

\* the reconnecting branch of loop() in AdvancedConnection (lines 86-98)
AdvancedAct ==
    /\ sk.pc = "act"
    /\ sk.name = AdvancedConnection
    /\ \E sch \in Schedules :
          LET r == connectToNetwork(w, now, sch)
          IN  /\ w' = r.m
              /\ now' = r.t
              /\ status' = r.st
              /\ sk' = [sk EXCEPT !.began = TRUE,
                                  !.attempts = IF r.ok THEN 0 ELSE @ + 1,
                                  !.fails = IF r.ok THEN 0 ELSE @ + 1,
                                  !.pc = "blink"]
    /\ UNCHANGED <<twin, ip, reply, seen, hist, connSlept>>

\* the LED part at the end of loop() in AdvancedConnection (lines 103-109), and the
\* iterations after it that are too early for the next check, k at most
RECURSIVE BlinkRun(_, _, _, _, _)
BlinkRun(m, st, t, lastCheck, k) ==
    LET m1 == isConnected(m, st, t)
        t1 == delay(t, IF m1.ret THEN 100 ELSE 200)
    IN  IF k <= 1 \/ Elapsed(t1, lastCheck) >= CHECK_INTERVAL THEN [m |-> m1, t |-> t1]
        ELSE BlinkRun(m1, st, t1, lastCheck, k - 1)

AdvancedBlink ==
    /\ sk.pc = "blink"
    /\ LET r == BlinkRun(w, status, now, sk.lastCheck,
                         Iterations(IF status = WL_CONNECTED THEN 100 ELSE 200))
       IN  /\ w' = r.m
           /\ now' = r.t
    /\ sk' = [sk EXCEPT !.pc = "loop"]
    /\ UNCHANGED <<twin, status, ip, reply, seen, hist, connSlept>>

\* the link comes up or goes down while the sketch runs
SketchLink ==
    /\ sk.pc \in {"loop", "act", "blink"}
    /\ now < MaxUptime
    /\ sk.flips < MaxLinkChanges
    /\ status' = IF status = WL_CONNECTED THEN WL_DISCONNECTED ELSE WL_CONNECTED
    /\ sk' = [sk EXCEPT !.flips = @ + 1]
    /\ UNCHANGED <<w, twin, ip, now, reply, seen, hist, connSlept>>

NextSketch ==
    \/ SketchSetup
    \/ LoopCheck
    \/ TimerAct
    \/ PlainAct
    \/ AdvancedAct
    \/ AdvancedBlink
    \/ SketchLink

SpecSketch == InitSketch /\ [][NextSketch]_vars

(***************************************************************************)
(* C27: spacing of the reconnection attempts of the timer sketches         *)
(***************************************************************************)
\* two consecutive begin() calls of the handler have been made
TwoAttempts == sk.name \in TimerSketches /\ sk.pair # <<>>

\* C27 as stated: any two consecutive begin() calls made by the disconnection handler
\* are at least 30000 ms apart, whether the earlier one succeeded or failed
C27_AsStated == TwoAttempts => sk.pair[2] >= RetryInterval

\* C27: two consecutive begin() calls made by the disconnection handler are at least
\* 30000 ms apart when the earlier one failed, and in the status test sketch, which
\* restarts its timer after either result, also when it succeeded; the data logger
\* and the MQTT client do not restart the timer after a successful attempt
C27_SpacedAfterFailure ==
    TwoAttempts /\ (sk.pair[1] = {FALSE} \/ sk.name = StatusTest)
        => sk.pair[2] >= RetryInterval

\* a handler attempt failed and the next one has been made, 30 s later or more
C27_Witness ==
    /\ TwoAttempts
    /\ sk.name = DataLogger
    /\ sk.pair = <<{FALSE}, RetryInterval>>

(***************************************************************************)
(* C28: the retry cap of AdvancedConnection                                *)
(***************************************************************************)
\* loop() calls begin() in this step
LoopBegins == sk'.began /\ ~sk.began

\* C28: in AdvancedConnection reconnectAttempts stays within 0..3 and equals the number
\* of failed attempts since the last successful reconnect or observed connection (so it
\* is reset to 0 by either), and after 3 such failures loop() calls begin() no more
C28_RetriesCapped ==
    /\ [](sk.name = AdvancedConnection
            => /\ sk.attempts \in 0..MAX_RECONNECT_ATTEMPTS
               /\ sk.attempts = sk.fails
               /\ (sk.pc = "act" => sk.fails < MAX_RECONNECT_ATTEMPTS))
    /\ [][sk.name = AdvancedConnection /\ sk.fails >= MAX_RECONNECT_ATTEMPTS
             => ~LoopBegins]_vars

\* three attempts have failed in a row, the check found the link down and did not retry
C28_Witness ==
    /\ sk.name = AdvancedConnection
    /\ sk.fails = MAX_RECONNECT_ATTEMPTS
    /\ sk.answer = {FALSE}
    /\ sk.pc = "blink"
    /\ ~sk.began

(***************************************************************************)
(* C29: begin() only after isConnected() answered false                    *)
(***************************************************************************)
\* C29: in an iteration of loop() begin() is called only if isConnected() returned
\* false earlier in that iteration
C29_BeginOnlyWhenDown ==
    /\ sk.pc = "act" => sk.answer = {FALSE}
    /\ sk.pc # "setup" /\ sk.began => sk.answer = {FALSE}

\* a loop() of the three sketches named has called begin() after isConnected()
\* answered false, and the call connected
C29_Witness ==
    /\ sk.name \in PlainSketches \cup {AdvancedConnection}
    /\ sk.began
    /\ sk.answer = {FALSE}
    /\ status = WL_CONNECTED

====
